---------------------------- MODULE Spec2Model ----------------------------
(***************************************************************************)
(* Planar geometry of the Manim-Learning scenes:                           *)
(*   src/triangle/triangle_w_circle.py  TriangleScene.construct and its    *)
(*                                      circle_circle_intersections        *)
(*   src/first.py                       CapsuleScene.construct and its     *)
(*                                      safe_normalize / get_arc_path      *)
(*                                                                         *)
(* numpy's float64 arithmetic is modelled by exact real arithmetic.  A     *)
(* real number is a quadratic surd (n + m*sqrt(k)) / den, which is closed  *)
(* under everything the two scenes compute from rational circles.  An      *)
(* angle is a whole number of turns plus a ray, so atan2, %, +, - and /2   *)
(* on angles are exact as well.                                            *)
(***************************************************************************)
EXTENDS Integers, Sequences, FiniteSets, TLC

(***************************************************************************)
(* Exact numbers: [n, m, k, den] is (n + m*sqrt(k)) / den with den > 0,    *)
(* k square-free, k = 1 exactly when m = 0, and gcd(n, m, den) = 1.        *)
(***************************************************************************)
Abs(i) == IF i < 0 THEN -i ELSE i

Sgn(i) == IF i < 0 THEN -1 ELSE IF i > 0 THEN 1 ELSE 0

RECURSIVE Gcd(_, _)
Gcd(a, b) == IF b = 0 THEN Abs(a) ELSE Gcd(b, a % Abs(b))

Mk(n, m, k, den) ==
    LET s  == Sgn(den)
        g  == Gcd(Gcd(n, m), den)
    IN  [n |-> (s * n) \div g, m |-> (s * m) \div g,
         k |-> IF m = 0 THEN 1 ELSE k, den |-> (s * den) \div g]

Rat(n, den) == Mk(n, 0, 1, den)

Num(i) == Rat(i, 1)

NNeg(x) == [x EXCEPT !.n = -x.n, !.m = -x.m]

\* x + y, for operands of one quadratic field
NAdd(x, y) ==
    CASE x.m = 0 \/ y.m = 0 \/ x.k = y.k ->
         Mk(x.n * y.den + y.n * x.den, x.m * y.den + y.m * x.den,
            IF x.m # 0 THEN x.k ELSE y.k, x.den * y.den)

NSub(x, y) == NAdd(x, NNeg(y))

\* x * y, for operands of one quadratic field, or two pure surds
NMul(x, y) ==
    CASE x.m = 0 \/ y.m = 0 \/ x.k = y.k ->
         LET k == IF x.m # 0 THEN x.k ELSE y.k
         IN  Mk(x.n * y.n + x.m * y.m * k, x.n * y.m + x.m * y.n, k,
                x.den * y.den)
      [] x.m # 0 /\ y.m # 0 /\ x.k # y.k /\ x.n = 0 /\ y.n = 0 ->
         LET g == Gcd(x.k, y.k)
         IN  Mk(0, x.m * y.m * g, (x.k \div g) * (y.k \div g), x.den * y.den)

\* 1 / x ; the caller has excluded x = 0
NInv(x) == Mk(x.den * x.n, -(x.den * x.m), x.k, x.n * x.n - x.m * x.m * x.k)

NDiv(x, y) == NMul(x, NInv(y))

\* a/b < c/d for b, d > 0, by the Euclidean algorithm (no products)
RECURSIVE FracLess(_, _, _, _)
FracLess(a, b, c, d) ==
    LET q1 == a \div b
        q2 == c \div d
        r1 == a % b
        r2 == c % d
    IN  IF q1 # q2 THEN q1 < q2
        ELSE IF r2 = 0 THEN FALSE
        ELSE IF r1 = 0 THEN TRUE
        ELSE FracLess(d, r2, b, r1)

\* n/m > sqrt(k) for n >= 0, m > 0, k square-free and > 1, by long division:
\* l = floor(2^j * n/m), r the remainder, k4 = k * 4^j
RECURSIVE GtSqrtBits(_, _, _, _, _, _)
GtSqrtBits(l, r, n, m, k, k4) ==
    IF l * l > k4 THEN TRUE
    ELSE IF (l + 1) * (l + 1) <= k4 THEN FALSE
    ELSE IF k4 > 268435456 THEN n * n > k * m * m
    ELSE LET bit == IF 2 * r >= m THEN 1 ELSE 0
         IN  GtSqrtBits(2 * l + bit, 2 * r - bit * m, n, m, k, 4 * k4)

FracGtSqrt(n, m, k) ==
    IF n \div m > k THEN TRUE ELSE GtSqrtBits(n \div m, n % m, n, m, k, k)

\* the sign of x: -1, 0 or 1
Sign(x) ==
    IF x.m = 0 THEN Sgn(x.n)
    ELSE IF x.n = 0 THEN Sgn(x.m)
    ELSE IF Sgn(x.n) = Sgn(x.m) THEN Sgn(x.n)
    ELSE IF FracGtSqrt(Abs(x.n), Abs(x.m), x.k) THEN Sgn(x.n) ELSE Sgn(x.m)

NLt(x, y) ==
    IF x.m = 0 /\ y.m = 0 THEN FracLess(x.n, x.den, y.n, y.den)
    ELSE Sign(NSub(x, y)) < 0

NGt(x, y) == NLt(y, x)

NAbs(x) == IF Sign(x) < 0 THEN NNeg(x) ELSE x

\* the largest s with s*s dividing i, found by trial division from p
RECURSIVE SquarePart(_, _)
SquarePart(i, p) ==
    IF p * p > i THEN 1
    ELSE IF i % (p * p) = 0 THEN p * SquarePart(i \div (p * p), p)
    ELSE SquarePart(i, p + 1)

\* sqrt(x) for a rational x >= 0: sqrt(n/den) = s1*sqrt(k1*k2) / (s2*k2)
NSqrt(x) ==
    CASE x.m = 0 /\ x.n >= 0 ->
         LET s1 == SquarePart(x.n, 2)
             s2 == SquarePart(x.den, 2)
             k1 == x.n \div (s1 * s1)
             k2 == x.den \div (s2 * s2)
         IN  IF x.n = 0 THEN Num(0)
             ELSE IF k1 * k2 = 1 THEN Rat(s1, s2)
             ELSE Mk(0, s1, k1 * k2, s2 * k2)


(***************************************************************************)
(* Vectors: numpy arrays of three coordinates, <<x, y, z>> (Python's       *)
(* v[0], v[1], v[2] are v[1], v[2], v[3] here).                            *)
(***************************************************************************)
Vec(x, y) == <<Num(x), Num(y), Num(0)>>

VAdd(u, w) == [i \in 1..3 |-> NAdd(u[i], w[i])]

VSub(u, w) == [i \in 1..3 |-> NSub(u[i], w[i])]

VNeg(u) == [i \in 1..3 |-> NNeg(u[i])]

VScale(s, u) == [i \in 1..3 |-> NMul(s, u[i])]

VDivS(u, s) == [i \in 1..3 |-> NDiv(u[i], s)]

VDot(u, w) == NAdd(NAdd(NMul(u[1], w[1]), NMul(u[2], w[2])), NMul(u[3], w[3]))

\* np.linalg.norm
VNorm(u) == NSqrt(VDot(u, u))

(***************************************************************************)
(* circle_circle_intersections, src/triangle/triangle_w_circle.py 51-89    *)
(***************************************************************************)
EpsDen == 100000000

\* the default of the parameter eps, 1e-8
DefaultEps == Rat(1, EpsDen)

\* a variant of line 58 that tests d == 0 exactly, as first.py line 18 does
CoincidentCentersExact(d, eps) == d = Num(0)

\* line 58: if d < eps
CoincidentCenters(d, eps) == NLt(d, eps)

\* line 62: if d > r1 + r2 + eps or d < abs(r1 - r2) - eps
TooFarOrInside(d, r1, r2, eps) ==
    \/ NGt(d, NAdd(NAdd(r1, r2), eps))
    \/ NLt(d, NSub(NAbs(NSub(r1, r2)), eps))

\* line 66: a = (r1**2 - r2**2 + d**2) / (2 * d)
RadicalOffset(r1, r2, d) ==
    NDiv(NAdd(NSub(NMul(r1, r1), NMul(r2, r2)), NMul(d, d)), NMul(Num(2), d))

\* lines 68-70: h_sq = r1**2 - a**2, set to 0.0 when abs(h_sq) < eps
ClampedHSq(r1, a, eps) ==
    LET h_sq == NSub(NMul(r1, r1), NMul(a, a))
    IN  IF NLt(NAbs(h_sq), eps) THEN Num(0) ELSE h_sq

\* a variant of line 80 without the minus sign
PerpNoMinus(v, d) == VDivS(<<v[2], v[1], Num(0)>>, d)

\* line 80: perp = np.array([-v[1], v[0], 0]) / d
Perp(v, d) == VDivS(<<NNeg(v[2]), v[1], Num(0)>>, d)

\* a variant of lines 83-89 without the tangent case
IntersectionPointsNoTangent(p0, h, perp) ==
    <<VAdd(p0, VScale(h, perp)), VSub(p0, VScale(h, perp))>>

\* lines 83-89: one point when h == 0, else p0 + h*perp then p0 - h*perp
IntersectionPoints(p0, h, perp) ==
    IF h = Num(0) THEN <<p0>>
    ELSE <<VAdd(p0, VScale(h, perp)), VSub(p0, VScale(h, perp))>>

circle_circle_intersections(c1, r1, c2, r2, eps) ==
    LET v == VSub(c2, c1)
        d == VNorm(v)
    IN  IF CoincidentCenters(d, eps) THEN <<>>
        ELSE IF TooFarOrInside(d, r1, r2, eps) THEN <<>>
        ELSE LET a    == RadicalOffset(r1, r2, d)
                 h_sq == ClampedHSq(r1, a, eps)
             IN  IF Sign(h_sq) < 0 THEN <<>>
                 ELSE IntersectionPoints(VAdd(c1, VDivS(VScale(a, v), d)),
                                         NSqrt(h_sq), Perp(v, d))

(***************************************************************************)
(* Angles.  An angle is 2*pi*t + Arg(d) with t a whole number of turns and *)
(* d a ray <<x, y>> whose argument is taken in [0, 2*pi).  Rays are kept   *)
(* with integer coordinates of gcd 1.  The trigonometric functions are     *)
(* exact on this representation.                                           *)
(***************************************************************************)
Ray(x, y) ==
    LET a1 == x.n * y.den
        b1 == x.m * y.den
        a2 == y.n * x.den
        b2 == y.m * x.den
        gg == Gcd(Gcd(a1, b1), Gcd(a2, b2))
    IN  <<Mk(a1 \div gg, b1 \div gg, x.k, 1), Mk(a2 \div gg, b2 \div gg, y.k, 1)>>

RayOf(u) == Ray(u[1], u[2])

\* Arg(u) in [0, pi)
UpperHalf(u) == Sign(u[2]) > 0 \/ (Sign(u[2]) = 0 /\ Sign(u[1]) > 0)

\* Arg(u) < Arg(w), both in [0, 2*pi)
ArgLess(u, w) ==
    IF UpperHalf(u) # UpperHalf(w) THEN UpperHalf(u)
    ELSE Sign(NSub(NMul(u[1], w[2]), NMul(u[2], w[1]))) > 0

\* complex product and conjugate: Arg adds, Arg negates
CMul(u, w) ==
    <<NSub(NMul(u[1], w[1]), NMul(u[2], w[2])),
      NAdd(NMul(u[1], w[2]), NMul(u[2], w[1]))>>

CConj(u) == <<u[1], NNeg(u[2])>>

\* the ray of half the argument; |u| is rational for the rays of two points
\* of one circle
HalfRay(u) ==
    LET len == NSqrt(NAdd(NMul(u[1], u[1]), NMul(u[2], u[2])))
    IN  IF UpperHalf(u) THEN Ray(NAdd(u[1], len), u[2])
        ELSE IF Sign(u[2]) = 0 THEN <<Num(0), Num(1)>>
        ELSE Ray(NNeg(NAdd(u[1], len)), NNeg(u[2]))

\* np.arctan2(y, x), in (-pi, pi]; arctan2(0, 0) is 0
arctan2(y, x) ==
    IF x = Num(0) /\ y = Num(0) THEN [t |-> 0, d |-> <<Num(1), Num(0)>>]
    ELSE [t |-> IF Sign(y) < 0 THEN -1 ELSE 0, d |-> Ray(x, y)]

AngAdd(a, b) ==
    LET d == RayOf(CMul(a.d, b.d))
    IN  [t |-> a.t + b.t + (IF ArgLess(d, a.d) THEN 1 ELSE 0), d |-> d]

AngSub(a, b) ==
    [t |-> a.t - b.t - (IF ArgLess(a.d, b.d) THEN 1 ELSE 0),
     d |-> RayOf(CMul(a.d, CConj(b.d)))]

\* a / 2.0
AngHalf(a) ==
    IF a.t % 2 = 0 THEN [t |-> a.t \div 2, d |-> HalfRay(a.d)]
    ELSE [t |-> (a.t - 1) \div 2,
          d |-> <<NNeg(HalfRay(a.d)[1]), NNeg(HalfRay(a.d)[2])>>]

\* a + TAU, a - TAU, a < 0, and Python's a % TAU (in [0, TAU) for TAU > 0)
AngAddTau(a) == [a EXCEPT !.t = a.t + 1]

AngSubTau(a) == [a EXCEPT !.t = a.t - 1]

AngNegative(a) == a.t < 0

AngModTau(a) == [a EXCEPT !.t = 0]

\* a vector scaled by a positive factor to rational coordinates (u / |u| has
\* coordinates that are multiples of one square root)
RationalMultiple(u) ==
    LET ks == {u[i].k : i \in {j \in 1..3 : u[j].m # 0}}
    IN  IF ks = {} THEN u ELSE VScale(NSqrt(Num(CHOOSE k \in ks : TRUE)), u)

\* the sign of np.dot(radius * [cos(ang), sin(ang), 0], w)
DotSignAtAngle(radius, ang, w) ==
    Sign(radius)
      * Sign(VDot(<<ang.d[1], ang.d[2], Num(0)>>, RationalMultiple(w)))

(***************************************************************************)
(* get_arc_path, src/first.py 63-104                                       *)
(***************************************************************************)
NumComponents == 60

\* lines 71-75
norm_pos(a) ==
    LET b == AngModTau(a)
    IN  IF AngNegative(b) THEN AngAddTau(b) ELSE b

\* a variant of lines 81-83 with the operands of the difference exchanged
CcwSweepExchanged(ang_start, ang_end) ==
    LET sweep == AngSub(ang_start, ang_end)
    IN  IF AngNegative(sweep) THEN AngAddTau(sweep) ELSE sweep

\* lines 81-83: the counter-clockwise sweep from start to end, in [0, 2*pi)
CcwSweep(ang_start, ang_end) ==
    LET sweep == AngSub(ang_end, ang_start)
    IN  IF AngNegative(sweep) THEN AngAddTau(sweep) ELSE sweep

\* a variant of lines 86-87 that adds the whole sweep
MidAngleCcwWholeSweep(ang_start, sweep) == norm_pos(AngAdd(ang_start, sweep))

\* lines 86-87: mid_angle_ccw
MidAngleCcw(ang_start, sweep) == norm_pos(AngAdd(ang_start, AngHalf(sweep)))

\* a variant of line 92 with >= for >
KeepsCcwOrTie(dot_sign) == dot_sign >= 0

\* line 92: np.dot(mid_pt_ccw - center, outward_vec) > 0
KeepsCcw(dot_sign) == dot_sign > 0

\* lines 88-95: mid_pt_ccw - center is radius * [cos, sin, 0]
FinalSweep(radius, mid_angle_ccw, sweep, outward_vec) ==
    IF KeepsCcw(DotSignAtAngle(radius, mid_angle_ccw, outward_vec))
    THEN sweep
    ELSE AngSubTau(sweep)

get_arc_path(center, radius, p_start, p_end, outward_vec) ==
    LET v_start   == VSub(p_start, center)
        v_end     == VSub(p_end, center)
        ang_start == norm_pos(arctan2(v_start[2], v_start[1]))
        ang_end   == norm_pos(arctan2(v_end[2], v_end[1]))
        sweep     == CcwSweep(ang_start, ang_end)
    IN  [radius         |-> radius,
         arc_center     |-> center,
         start_angle    |-> ang_start,
         angle          |-> FinalSweep(radius, MidAngleCcw(ang_start, sweep),
                                       sweep, outward_vec),
         num_components |-> NumComponents]

\* Arc.points (lines 113-114): the points of the arc, of which the model keeps
\* the first, the middle and the last; each is center + radius*[cos, sin, 0]
\* at its angle, as evaluated by the library and not as an exact point: the
\* tuple <<center, radius, angle, "evaluated">>
ArcPoints(arc) ==
    LET at(a) == <<arc.arc_center, arc.radius, a, "evaluated">>
    IN  <<at(arc.start_angle),
          at(AngAdd(arc.start_angle, AngHalf(arc.angle))),
          at(AngAdd(arc.start_angle, arc.angle))>>

\* a variant of lines 117-122 that snaps the first point only
SnapFirstOnly(points, first, last) ==
    IF Len(points) > 0 THEN [points EXCEPT ![1] = first] ELSE points

\* lines 117-119 and 120-122: pts[0] = first; pts[-1] = last
SnapEndpoints(points, first, last) ==
    IF Len(points) > 0
    THEN [points EXCEPT ![1] = first, ![Len(points)] = last]
    ELSE points

(***************************************************************************)
(* CapsuleScene.construct, src/first.py                                    *)
(***************************************************************************)
ClampDen == 100000000

\* line 25: a = (r1 ** 2 - r2 ** 2 + dist ** 2) / (2 * dist)
CapsuleOffset(r1, r2, dist) ==
    NDiv(NAdd(NSub(NMul(r1, r1), NMul(r2, r2)), NMul(dist, dist)),
         NMul(Num(2), dist))

\* lines 26-28: h_sq, set to 0.0 when -1e-8 < h_sq < 0
CapsuleHSq(r1, a) ==
    LET h_sq == NSub(NMul(r1, r1), NMul(a, a))
    IN  IF Sign(h_sq) < 0 /\ NGt(h_sq, Rat(-1, ClampDen)) THEN Num(0) ELSE h_sq

\* a variant of lines 37-45 with p1 and p2 exchanged
CapsulePointsExchanged(c1, c2, a, h, dist) ==
    LET x0 == NAdd(c1[1], NDiv(NMul(a, NSub(c2[1], c1[1])), dist))
        y0 == NAdd(c1[2], NDiv(NMul(a, NSub(c2[2], c1[2])), dist))
        rx == NMul(NNeg(NSub(c2[2], c1[2])), NDiv(h, dist))
        ry == NMul(NSub(c2[1], c1[1]), NDiv(h, dist))
    IN  <<  <<NSub(x0, rx), NSub(y0, ry), Num(0)>>,
            <<NAdd(x0, rx), NAdd(y0, ry), Num(0)>>  >>

\* lines 37-45: <<p1, p2>>
CapsulePoints(c1, c2, a, h, dist) ==
    LET x0 == NAdd(c1[1], NDiv(NMul(a, NSub(c2[1], c1[1])), dist))
        y0 == NAdd(c1[2], NDiv(NMul(a, NSub(c2[2], c1[2])), dist))
        rx == NMul(NNeg(NSub(c2[2], c1[2])), NDiv(h, dist))
        ry == NMul(NSub(c2[1], c1[1]), NDiv(h, dist))
    IN  <<  <<NAdd(x0, rx), NAdd(y0, ry), Num(0)>>,
            <<NSub(x0, rx), NSub(y0, ry), Num(0)>>  >>

\* lines 54-56
safe_normalize(u) ==
    LET len == VNorm(u)
    IN  IF len # Num(0) THEN VDivS(u, len) ELSE u

\* lines 111, 124-128: the points of both arcs appended, the path closed
CapsuleOutline(points_A, points_B) ==
    [points |-> points_A \o points_B, closed |-> TRUE]

(***************************************************************************)
(* TriangleScene.construct, src/triangle/triangle_w_circle.py              *)
(***************************************************************************)
\* lines 21-25: the signed (shoelace) area sum over the three centers
SignedArea(cs) ==
    LET term(i) == NSub(NMul(cs[i][1], cs[(i % 3) + 1][2]),
                        NMul(cs[(i % 3) + 1][1], cs[i][2]))
    IN  NAdd(NAdd(term(1), term(2)), term(3))

\* list.reverse()
Reverse(list) == [i \in 1..Len(list) |-> list[Len(list) + 1 - i]]

\* a variant of lines 28-31 that reverses on a positive area
ForceCcwWrongSign(a, list) == IF Sign(a) > 0 THEN Reverse(list) ELSE list

\* lines 28-31: if area < 0, reverse
ForceCcw(a, list) == IF Sign(a) < 0 THEN Reverse(list) ELSE list

\* lines 34-36: label i+1 next to centers[i]
Labels(cs) == [i \in 1..Len(cs) |-> [text |-> i, next_to |-> cs[i]]]

\* lines 39-43
Centroid(cs) == VDivS(VAdd(VAdd(cs[1], cs[2]), cs[3]), Num(3))

\* the result of 0.0 / 0.0
NaN == [n |-> 0, m |-> 0, k |-> 1, den |-> 0]

\* line 46: v / np.linalg.norm(v), which divides by zero when v is zero
Normalized(v) ==
    IF VNorm(v) = Num(0) THEN <<NaN, NaN, NaN>> ELSE VDivS(v, VNorm(v))

\* lines 45-46
OutwardDirs(cs, centroid) ==
    [i \in 1..3 |-> Normalized(VSub(cs[i], centroid))]

\* lines 90-95: intersections[(i, j)] for j = (i + 1) % n
Intersections(cs, rs) ==
    [i \in 1..3 |->
        circle_circle_intersections(cs[i], rs[i], cs[(i % 3) + 1],
                                    rs[(i % 3) + 1], DefaultEps)]

VARIABLES pc, call, pts, arc_call, arc, arc_pts,
          circle1, circle2, circle3, played,
          p1, p2, outward_A, outward_B, arc_A_obj, arc_B_obj, pts_A, pts_B,
          capsule,
          circles, centers, radii, area, labels, g, outward_dirs,
          intersections

intersectVars == <<call, pts>>

arcVars == <<arc_call, arc, arc_pts>>

sceneVars == <<circle1, circle2, circle3, played>>

capsuleVars == <<p1, p2, outward_A, outward_B, arc_A_obj, arc_B_obj, pts_A,
                 pts_B, capsule>>

triangleVars == <<circles, centers, radii, area, labels, g, outward_dirs,
                  intersections>>

vars == <<pc, intersectVars, arcVars, sceneVars, capsuleVars, triangleVars>>

ZeroVec == <<Num(0), Num(0), Num(0)>>

NoAngle == [t |-> 0, d |-> <<Num(1), Num(0)>>]

NoArc == [radius |-> Num(0), arc_center |-> ZeroVec, start_angle |-> NoAngle,
          angle |-> NoAngle, num_components |-> 0]

NoCall == [c1 |-> ZeroVec, r1 |-> Num(0), c2 |-> ZeroVec, r2 |-> Num(0),
           eps |-> Num(0)]

NoArcCall == [center |-> ZeroVec, radius |-> Num(0), p_start |-> ZeroVec,
              p_end |-> ZeroVec, outward_vec |-> ZeroVec]

NoCircle == [name |-> "", center |-> ZeroVec, radius |-> Num(0)]

NoIntersectCall == call = NoCall /\ pts = <<>>

NoArcCallYet == arc_call = NoArcCall /\ arc = NoArc /\ arc_pts = <<>>

NoCapsuleYet ==
    /\ p1 = ZeroVec /\ p2 = ZeroVec
    /\ outward_A = ZeroVec /\ outward_B = ZeroVec
    /\ arc_A_obj = NoArc /\ arc_B_obj = NoArc
    /\ pts_A = <<>> /\ pts_B = <<>>
    /\ capsule = [points |-> <<>>, closed |-> FALSE]

NoTriangleYet ==
    /\ circles = <<>> /\ centers = <<>> /\ radii = <<>>
    /\ area = Num(0) /\ labels = <<>> /\ g = ZeroVec
    /\ outward_dirs = <<>> /\ intersections = <<>>

NoScene ==
    /\ circle1 = NoCircle /\ circle2 = NoCircle /\ circle3 = NoCircle
    /\ played = <<>>

(***************************************************************************)
(* Bounds of the inputs                                                    *)
(***************************************************************************)
GridMax == 3

MaxRadius == 3

Coords == -GridMax..GridMax

GridPoints == {Vec(x, y) : x \in Coords, y \in Coords}

Radii == {Num(r) : r \in 1..MaxRadius}

\* tolerances passed as eps: the default, and two of the size of the grid
EpsValues == {DefaultEps, Num(1), Num(2)}

FirstCenters == {Vec(-2, 0), Vec(1, -1)}

(***************************************************************************)
(* One call of circle_circle_intersections, triangle_w_circle.py line 94   *)
(***************************************************************************)
InitIntersect ==
    /\ pc = "call"
    /\ call \in [c1 : FirstCenters, r1 : Radii, c2 : GridPoints, r2 : Radii,
                 eps : EpsValues]
    /\ pts = <<>>
    /\ NoArcCallYet /\ NoScene /\ NoCapsuleYet /\ NoTriangleYet

Intersect ==
    /\ pc = "call"
    /\ pts' = circle_circle_intersections(call.c1, call.r1, call.c2, call.r2,
                                          call.eps)
    /\ pc' = "returned"
    /\ UNCHANGED <<call, arcVars, sceneVars, capsuleVars, triangleVars>>

SpecIntersect == InitIntersect /\ [][Intersect]_vars

(***************************************************************************)
(* One call of get_arc_path (first.py line 107) and the snap of the        *)
(* returned arc's points (lines 113, 117-119), for two points of one       *)
(* circle and any outward vector                                           *)
(***************************************************************************)
ArcGridMax == 3

OutwardMax == 2

Offsets == {Vec(x, y) : x \in -ArcGridMax..ArcGridMax,
                        y \in -ArcGridMax..ArcGridMax} \ {ZeroVec}

OutwardVectors == {Vec(x, y) : x \in -OutwardMax..OutwardMax,
                               y \in -OutwardMax..OutwardMax}

InitArc ==
    /\ pc = "arc_call"
    /\ \E c \in FirstCenters, s \in Offsets, e \in Offsets, o \in OutwardVectors :
          /\ VDot(s, s) = VDot(e, e)
          /\ arc_call = [center |-> c, radius |-> VNorm(s),
                         p_start |-> VAdd(c, s), p_end |-> VAdd(c, e),
                         outward_vec |-> o]
    /\ arc = NoArc /\ arc_pts = <<>>
    /\ NoIntersectCall /\ NoScene /\ NoCapsuleYet /\ NoTriangleYet

GetArcPath ==
    /\ pc = "arc_call"
    /\ arc' = get_arc_path(arc_call.center, arc_call.radius, arc_call.p_start,
                           arc_call.p_end, arc_call.outward_vec)
    /\ pc' = "arc_built"
    /\ UNCHANGED <<arc_call, arc_pts, intersectVars, sceneVars, capsuleVars,
                   triangleVars>>

SnapArc ==
    /\ pc = "arc_built"
    /\ arc_pts' = SnapEndpoints(ArcPoints(arc), arc_call.p_start, arc_call.p_end)
    /\ pc' = "snapped"
    /\ UNCHANGED <<arc_call, arc, intersectVars, sceneVars, capsuleVars,
                   triangleVars>>

NextArc == GetArcPath \/ SnapArc

SpecArc == InitArc /\ [][NextArc]_vars

(***************************************************************************)
(* CapsuleScene.construct, step by step, for any two circles on the grid   *)
(* (the scene's own are radius 3 at (-2, 0) and (2, 0))                    *)
(***************************************************************************)
CapsuleDist == VNorm(VSub(circle2.center, circle1.center))

CapsuleA == CapsuleOffset(circle1.radius, circle2.radius, CapsuleDist)

\* lines 49, 58: outward_A = safe_normalize(-(c2 - c1))
OutwardA(c1, c2) == safe_normalize(VNeg(VSub(c2, c1)))

\* lines 51, 59: outward_B = safe_normalize(c2 - c1)
OutwardB(c1, c2) == safe_normalize(VSub(c2, c1))

InitCapsule ==
    /\ pc = "capsule_construct"
    /\ circle1 \in [name : {"circle1"}, center : FirstCenters, radius : Radii]
    /\ circle2 \in [name : {"circle2"}, center : GridPoints, radius : Radii]
    /\ circle3 = NoCircle
    /\ played = <<>>
    /\ NoCapsuleYet /\ NoTriangleYet /\ NoIntersectCall /\ NoArcCallYet

\* lines 16-22: identical centers, the circles alone are shown
CapsuleCoincident ==
    /\ pc = "capsule_construct"
    /\ CapsuleDist = Num(0)
    /\ played' = <<"circle1", "circle2">>
    /\ pc' = "done"
    /\ UNCHANGED <<circle1, circle2, circle3, capsuleVars, triangleVars,
                   intersectVars, arcVars>>

\* lines 24-33: no intersection, the circles alone are shown
CapsuleNoIntersection ==
    /\ pc = "capsule_construct"
    /\ CapsuleDist # Num(0)
    /\ Sign(CapsuleHSq(circle1.radius, CapsuleA)) < 0
    /\ played' = <<"circle1", "circle2">>
    /\ pc' = "done"
    /\ UNCHANGED <<circle1, circle2, circle3, capsuleVars, triangleVars,
                   intersectVars, arcVars>>

\* lines 24-59: the intersection points and the outward vectors
CapsuleIntersect ==
    /\ pc = "capsule_construct"
    /\ CapsuleDist # Num(0)
    /\ Sign(CapsuleHSq(circle1.radius, CapsuleA)) >= 0
    /\ LET pp == CapsulePoints(circle1.center, circle2.center, CapsuleA,
                               NSqrt(CapsuleHSq(circle1.radius, CapsuleA)),
                               CapsuleDist)
       IN  p1' = pp[1] /\ p2' = pp[2]
    /\ outward_A' = OutwardA(circle1.center, circle2.center)
    /\ outward_B' = OutwardB(circle1.center, circle2.center)
    /\ pc' = "capsule_arcs"
    /\ UNCHANGED <<sceneVars, arc_A_obj, arc_B_obj, pts_A, pts_B, capsule,
                   triangleVars, intersectVars, arcVars>>

\* lines 107-108
CapsuleArcs ==
    /\ pc = "capsule_arcs"
    /\ arc_A_obj' = get_arc_path(circle1.center, circle1.radius, p1, p2,
                                 outward_A)
    /\ arc_B_obj' = get_arc_path(circle2.center, circle2.radius, p2, p1,
                                 outward_B)
    /\ pc' = "capsule_outline"
    /\ UNCHANGED <<sceneVars, p1, p2, outward_A, outward_B, pts_A, pts_B,
                   capsule, triangleVars, intersectVars, arcVars>>

\* lines 111-128
CapsuleBuild ==
    /\ pc = "capsule_outline"
    /\ pts_A' = SnapEndpoints(ArcPoints(arc_A_obj), p1, p2)
    /\ pts_B' = SnapEndpoints(ArcPoints(arc_B_obj), p2, p1)
    /\ capsule' = CapsuleOutline(pts_A', pts_B')
    /\ pc' = "capsule_play"
    /\ UNCHANGED <<sceneVars, p1, p2, outward_A, outward_B, arc_A_obj,
                   arc_B_obj, triangleVars, intersectVars, arcVars>>

\* lines 134-153
CapsulePlay ==
    /\ pc = "capsule_play"
    /\ played' = <<"circle1", "circle2", "dot1", "lbl1", "dot2", "lbl2",
                   "arrow_A", "arrow_B", "capsule">>
    /\ pc' = "done"
    /\ UNCHANGED <<circle1, circle2, circle3, capsuleVars, triangleVars,
                   intersectVars, arcVars>>

NextCapsule ==
    \/ CapsuleCoincident
    \/ CapsuleNoIntersection
    \/ CapsuleIntersect
    \/ CapsuleArcs
    \/ CapsuleBuild
    \/ CapsulePlay

SpecCapsule == InitCapsule /\ [][NextCapsule]_vars

(***************************************************************************)
(* TriangleScene.construct, step by step, for any three circles on the     *)
(* grid                                                                    *)
(***************************************************************************)
TriangleGridMax == 2

TrianglePoints == {Vec(x, y) : x \in -TriangleGridMax..TriangleGridMax,
                               y \in -TriangleGridMax..TriangleGridMax}

TriangleRadii == {<<r, r, r>> : r \in Radii} \cup {<<Num(1), Num(2), Num(3)>>}

InitTriangle ==
    /\ pc = "triangle_construct"
    /\ \E rs \in TriangleRadii, c \in FirstCenters :
          /\ circle1 = [name |-> "circle1", center |-> c, radius |-> rs[1]]
          /\ circle2 \in [name : {"circle2"}, center : TrianglePoints,
                          radius : {rs[2]}]
          /\ circle3 \in [name : {"circle3"}, center : TrianglePoints,
                          radius : {rs[3]}]
    /\ played = <<>>
    /\ NoTriangleYet /\ NoCapsuleYet /\ NoIntersectCall /\ NoArcCallYet

\* lines 16-25
TriangleArea ==
    /\ pc = "triangle_construct"
    /\ circles' = <<circle1, circle2, circle3>>
    /\ centers' = <<circle1.center, circle2.center, circle3.center>>
    /\ radii' = <<circle1.radius, circle2.radius, circle3.radius>>
    /\ area' = SignedArea(centers')
    /\ pc' = "triangle_ccw"
    /\ UNCHANGED <<sceneVars, labels, g, outward_dirs, intersections,
                   capsuleVars, intersectVars, arcVars>>

\* lines 28-36
TriangleForceCcw ==
    /\ pc = "triangle_ccw"
    /\ centers' = ForceCcw(area, centers)
    /\ circles' = ForceCcw(area, circles)
    /\ radii' = ForceCcw(area, radii)
    /\ labels' = Labels(centers')
    /\ pc' = "triangle_outward"
    /\ UNCHANGED <<sceneVars, area, g, outward_dirs, intersections,
                   capsuleVars, intersectVars, arcVars>>

\* lines 39-46
TriangleOutward ==
    /\ pc = "triangle_outward"
    /\ g' = Centroid(centers)
    /\ outward_dirs' = OutwardDirs(centers, g')
    /\ pc' = "triangle_intersections"
    /\ UNCHANGED <<sceneVars, circles, centers, radii, area, labels,
                   intersections, capsuleVars, intersectVars, arcVars>>

\* lines 90-95
TriangleIntersections ==
    /\ pc = "triangle_intersections"
    /\ intersections' = Intersections(centers, radii)
    /\ pc' = "triangle_play"
    /\ UNCHANGED <<sceneVars, circles, centers, radii, area, labels, g,
                   outward_dirs, capsuleVars, intersectVars, arcVars>>

\* lines 99-125
TrianglePlay ==
    /\ pc = "triangle_play"
    /\ played' = <<"dot", "text", "circle1", "circle2", "circle3",
                   "arrows_from_centroid", "labels", "area_text">>
    /\ pc' = "done"
    /\ UNCHANGED <<circle1, circle2, circle3, triangleVars, capsuleVars,
                   intersectVars, arcVars>>

NextTriangle ==
    \/ TriangleArea
    \/ TriangleForceCcw
    \/ TriangleOutward
    \/ TriangleIntersections
    \/ TrianglePlay

SpecTriangle == InitTriangle /\ [][NextTriangle]_vars

(***************************************************************************)
(* Properties of circle_circle_intersections                               *)
(***************************************************************************)
CenterDistance == VNorm(VSub(call.c2, call.c1))

DistSq(p, q) == VDot(VSub(p, q), VSub(p, q))

\* z-component of u x w
Cross(u, w) == NSub(NMul(u[1], w[2]), NMul(u[2], w[1]))

\* h^2 from the radii and the distance alone:
\* ((r1+r2)^2 - d^2) * (d^2 - (r1-r2)^2) / (4 d^2)
HSqOfCall ==
    LET d2 == DistSq(call.c2, call.c1)
        s  == NAdd(call.r1, call.r2)
        t  == NSub(call.r1, call.r2)
    IN  NDiv(NMul(NSub(NMul(s, s), d2), NSub(d2, NMul(t, t))),
             NMul(Num(4), d2))

OnBothCircles(p) ==
    /\ DistSq(p, call.c1) = NMul(call.r1, call.r1)
    /\ DistSq(p, call.c2) = NMul(call.r2, call.r2)

Degenerate ==
    \/ NLt(CenterDistance, call.eps)
    \/ NGt(CenterDistance, NAdd(NAdd(call.r1, call.r2), call.eps))
    \/ NLt(CenterDistance, NSub(NAbs(NSub(call.r1, call.r2)), call.eps))

\* C1: coincident centers (d < eps), disjoint circles (d > r1+r2+eps) and a
\* circle strictly inside the other (d < |r1-r2|-eps) all give the empty result
C1_DegenerateEmpty == (pc = "returned" /\ Degenerate) => pts = <<>>

\* C1 witness: two equal circles whose distinct centers are closer than eps
C1_Witness ==
    /\ pc = "returned"
    /\ call.c1 # call.c2
    /\ call.r1 = call.r2
    /\ NLt(CenterDistance, call.eps)
    /\ pts = <<>>

\* the two points p0 + h*perp, p0 - h*perp in that order (the first on the
\* left of the ray c1 -> c2, the second on its right), both on both circles
TwoPointsInOrder ==
    /\ Len(pts) = 2
    /\ Sign(Cross(VSub(call.c2, call.c1), VSub(pts[1], call.c1))) > 0
    /\ Sign(Cross(VSub(call.c2, call.c1), VSub(pts[2], call.c1))) < 0
    /\ OnBothCircles(pts[1])
    /\ OnBothCircles(pts[2])

IsCapsuleExample ==
    /\ call.c1 = Vec(-2, 0) /\ call.c2 = Vec(2, 0)
    /\ call.r1 = Num(3) /\ call.r2 = Num(3)
    /\ call.eps = DefaultEps

CapsuleExamplePoints ==
    <<  <<Num(0), NSqrt(Num(5)), Num(0)>>,
        <<Num(0), NNeg(NSqrt(Num(5))), Num(0)>>  >>

\* C2 as stated: every pair with |r1-r2| < d < r1+r2 and d > 0 gives exactly
\* the two points, in order, on both circles
C2_AsStated ==
    (/\ pc = "returned"
     /\ Sign(CenterDistance) > 0
     /\ NLt(NAbs(NSub(call.r1, call.r2)), CenterDistance)
     /\ NLt(CenterDistance, NAdd(call.r1, call.r2))) => TwoPointsInOrder

\* C2 amended: every pair with d >= eps and h^2 >= eps gives exactly the two
\* points p0 + h*perp, p0 - h*perp in that order, each at distance r1 from c1
\* and r2 from c2; centers (-2,0), (2,0) with radii 3 give (0, sqrt5, 0) then
\* (0, -sqrt5, 0)
C2_TwoPointsBeyondTolerance ==
    /\ (/\ pc = "returned"
        /\ ~NLt(CenterDistance, call.eps)
        /\ ~NLt(HSqOfCall, call.eps)) => TwoPointsInOrder
    /\ (pc = "returned" /\ IsCapsuleExample) => pts = CapsuleExamplePoints

\* C2 witness: two points were returned for circles of different radii whose
\* centers are neither on a common horizontal nor a common vertical line
C2_Witness ==
    /\ pc = "returned"
    /\ call.c1[1] # call.c2[1] /\ call.c1[2] # call.c2[2]
    /\ call.r1 # call.r2
    /\ ~NLt(HSqOfCall, call.eps)
    /\ Len(pts) = 2

WithinEpsOfTangent ==
    /\ ~NGt(CenterDistance, NAdd(NAdd(call.r1, call.r2), call.eps))
    /\ ~NLt(CenterDistance, NSub(NAdd(call.r1, call.r2), call.eps))

ArcBuilt == pc \in {"arc_built", "snapped"}

VStart == VSub(arc_call.p_start, arc_call.center)

VEnd == VSub(arc_call.p_end, arc_call.center)

\* the direction, from the center, of the midpoint of the counter-clockwise
\* arc from p_start to p_end, from the two radius vectors alone
CcwMidDirection ==
    IF Sign(Cross(VStart, VEnd)) > 0 THEN VAdd(VStart, VEnd)
    ELSE IF Sign(Cross(VStart, VEnd)) < 0 THEN VNeg(VAdd(VStart, VEnd))
    ELSE IF Sign(VDot(VStart, VEnd)) > 0 THEN VStart
    ELSE <<NNeg(VStart[2]), VStart[1], Num(0)>>

CcwMidDotOutward == Sign(VDot(CcwMidDirection, arc_call.outward_vec))

MidAngleOfArc == AngAdd(arc.start_angle, AngHalf(arc.angle))

\* C4: the midpoint of the returned arc (at start_angle + final_sweep/2), minus
\* the center, has a non-negative dot product with the outward direction
C4_OutwardGuarantee ==
    ArcBuilt =>
        /\ DotSignAtAngle(arc.radius, MidAngleOfArc, arc_call.outward_vec) >= 0
        /\ MidAngleOfArc.d =
             RayOf(IF arc.angle.t = 0 THEN CcwMidDirection
                   ELSE VNeg(CcwMidDirection))

\* C4 witness: the clockwise arc was returned and its midpoint has a positive
\* dot product with the outward direction
C4_Witness ==
    /\ ArcBuilt
    /\ arc.angle.t = -1
    /\ DotSignAtAngle(arc.radius, MidAngleOfArc, arc_call.outward_vec) > 0

\* C5: the returned sweep is the counter-clockwise sweep (in [0, 2*pi), taking
\* the start radius to the end radius) exactly when the midpoint m of the
\* counter-clockwise arc has (m - center) . outward > 0, and that sweep minus
\* 2*pi (in [-2*pi, 0)) otherwise, a dot product of exactly 0 included
C5_SelectionRule ==
    ArcBuilt =>
        /\ arc.angle.t = (IF CcwMidDotOutward > 0 THEN 0 ELSE -1)
        /\ RayOf(CMul(RayOf(VStart), arc.angle.d)) = RayOf(VEnd)

\* C5 witness: a non-zero outward direction perpendicular to the midpoint of
\* the counter-clockwise arc, and the clockwise arc returned
C5_Witness ==
    /\ ArcBuilt
    /\ arc_call.outward_vec # ZeroVec
    /\ arc_call.p_start # arc_call.p_end
    /\ CcwMidDotOutward = 0
    /\ arc.angle.t = -1

\* C6: the start angle is the angle of p_start in [0, 2*pi), start angle plus
\* signed sweep is the angle of p_end modulo 2*pi, and after the snap the first
\* point is p_start and the last point is p_end
C6_RoundTrip ==
    /\ ArcBuilt =>
         /\ arc.start_angle = [t |-> 0, d |-> RayOf(VStart)]
         /\ AngAdd(arc.start_angle, arc.angle).d = RayOf(VEnd)
    /\ pc = "snapped" =>
         /\ arc_pts[1] = arc_call.p_start
         /\ arc_pts[Len(arc_pts)] = arc_call.p_end

\* C6 witness: the clockwise arc between two distinct points, snapped
C6_Witness ==
    /\ pc = "snapped"
    /\ arc.angle.t = -1
    /\ arc_call.p_start # arc_call.p_end
    /\ Sign(VStart[2]) < 0
    /\ arc_pts[1] = arc_call.p_start

(***************************************************************************)
(* Properties of the capsule outline                                       *)
(***************************************************************************)
OutlineBuilt == pc = "capsule_play" \/ (pc = "done" /\ capsule.closed)

ArcsBuilt == pc = "capsule_outline" \/ OutlineBuilt

\* the arcs of the outline in order: arc A, then arc B
OutlineArcs == <<pts_A, pts_B>>

\* C7: after the snap, the first point of each arc of the outline is equal to
\* the last point of the arc before it, cyclically (arc A after arc B)
C7_OutlineClosure ==
    OutlineBuilt =>
        /\ \A i \in 1..2 :
              LET prev == OutlineArcs[IF i = 1 THEN 2 ELSE i - 1]
              IN  OutlineArcs[i][1] = prev[Len(prev)]
        /\ capsule.points = pts_A \o pts_B
        /\ capsule.closed

\* C7 witness: an outline of two arcs between two distinct intersection points
\* with irrational coordinates
C7_Witness ==
    /\ OutlineBuilt
    /\ p1 # p2
    /\ p1[1].m # 0 /\ p1[2].m # 0
    /\ pts_A[1] = p1 /\ pts_B[1] = p2

PositiveSweep(a) == a.t = 0 /\ a.d # <<Num(1), Num(0)>>

\* C10: when the circles meet in two distinct points, the calls for arc A and
\* for arc B both keep the counter-clockwise sweep, which is strictly positive
C10_CounterClockwiseOutline ==
    (ArcsBuilt /\ p1 # p2) =>
        /\ PositiveSweep(arc_A_obj.angle)
        /\ PositiveSweep(arc_B_obj.angle)

\* C10 witness: both arcs built for circles whose radical line lies beyond the
\* center of circle1 (a < 0), on a slanted center line
C10_Witness ==
    /\ ArcsBuilt
    /\ p1 # p2
    /\ Sign(CapsuleA) < 0
    /\ circle1.center[1] # circle2.center[1]
    /\ circle1.center[2] # circle2.center[2]
    /\ PositiveSweep(arc_A_obj.angle)

(***************************************************************************)
(* Properties of the triangle scene                                        *)
(***************************************************************************)
Reordered == pc \in {"triangle_outward", "triangle_intersections",
                     "triangle_play"}
               \/ (pc = "done" /\ circles # <<>>)

OriginalCircles == <<circle1, circle2, circle3>>

OriginalCenters == <<circle1.center, circle2.center, circle3.center>>

\* C8: a negative signed area reverses centers, radii and circles, and the area
\* over the resulting order is positive; a non-negative area leaves the order
\* unchanged; centers[i] and radii[i] belong to circles[i], and label i+1 is
\* next to centers[i]
C8_OrientationNormalized ==
    Reordered =>
        /\ Sign(area) < 0 =>
              /\ circles = Reverse(OriginalCircles)
              /\ Sign(SignedArea(centers)) > 0
        /\ Sign(area) >= 0 => circles = OriginalCircles
        /\ area = SignedArea(OriginalCenters)
        /\ \A i \in 1..3 :
              /\ centers[i] = circles[i].center
              /\ radii[i] = circles[i].radius
              /\ labels[i] = [text |-> i, next_to |-> centers[i]]

\* C8 witness: a clockwise triangle of circles whose first and last radii
\* differ was reversed
C8_Witness ==
    /\ Reordered
    /\ Sign(area) < 0
    /\ circle1.radius # circle3.radius
    /\ circles[1] = circle3
    /\ radii[1] = circle3.radius

IsNaN(x) == x.den = 0

\* C9: no degenerate case divides by zero: every outward vector of either scene
\* is a vector of numbers, and coincident or disjoint circles give an empty
\* intersection list or the circles alone
C9_DegenerateNeverDividesByZero ==
    /\ (pc \in {"triangle_intersections", "triangle_play"}) =>
          \A i \in 1..3 : \A j \in 1..3 : ~IsNaN(outward_dirs[i][j])
    /\ (pc = "triangle_play") =>
          \A i \in 1..3 :
             centers[i] = centers[(i % 3) + 1] => intersections[i] = <<>>
    /\ (pc = "capsule_arcs") =>
          \A j \in 1..3 : ~IsNaN(outward_A[j]) /\ ~IsNaN(outward_B[j])
====
